---- MODULE Spec2Model ----
(***************************************************************************)
(* The annotation-element interaction model of the image editor component  *)
(* (src/src/components/image-editor.tsx): tool selection, text placement,  *)
(* shape drawing, dragging, inline text editing, selection clearing and    *)
(* image loading.                                                          *)
(*                                                                         *)
(* Every React event handler is an operator from the component state (a    *)
(* record of the useState cells) to the component state.  Every DOM event  *)
(* is an action that applies, in dispatch order, the handlers listening    *)
(* for it.  Pointer and keyboard events are "discrete" events: React       *)
(* commits the state before the next listener or event runs, so a handler  *)
(* always reads the committed state.                                       *)
(*                                                                         *)
(* Spec explores the annotation gestures with one image load; ViewSpec     *)
(* explores loading, zoom and export together with text placement.         *)
(*                                                                         *)
(* cursorPosition (line 30) is written by handleMouseMove and read only by *)
(* the placeholder preview of the render; no handler reads it and it is    *)
(* left out.  editedImageRef.current is set for the whole life of the      *)
(* mounted component, so the `!editedImageRef.current` guards never fire.  *)
(***************************************************************************)
EXTENDS Integers, Sequences, FiniteSets, TLC

VARIABLES
    image,          \* useState<string | null>: the loaded image
    pending,        \* FileReader reads in flight (their results)
    reads,          \* the number of reads started so far
    selectedTool,   \* useState<string | null>
    elements,       \* the annotation list
    isDrawing,
    drawStart,
    activeElement,  \* useState<number | null>, 0-based index
    isDragging,
    dragStart,
    zoom,           \* useState(1), in tenths
    ptr             \* the browser's pointer: button state and click synthesis

vars == <<image, pending, selectedTool, elements, isDrawing, drawStart,
          activeElement, isDragging, dragStart, zoom, ptr, reads>>

----------------------------------------------------------------------------
(* Bounds of the model *)

\* the element list is explored up to this length
MaxElems == 2
\* a drag is explored while every element position stays in 0..MaxPos
MaxPos == 2
\* image reads (file picks and pastes of an image) are explored up to this many
MaxReads == 1
\* the same, where loading is explored together with the view (ViewSpec)
MaxLoads == 3
\* a record drawn as a shape while the tool was "text" has the type "text"
\* and no content; a double click puts it into editing.  This many of them
\* are explored in editing.
MaxBare == 0

----------------------------------------------------------------------------
(* Values *)

Null == "null"
NoElement == -1

Tools == {"text", "arrow", "square"}
Shapes == {"arrow", "square"}

TextWidth == 200
TextHeight == 40
Placeholder == "Text goes here"

\* what the user may type into a text element
Contents == {Placeholder, "hi"}
Keys == {"Escape", "a"}
Files == {"A"}
\* the images offered where loading is explored together with the view
ViewFiles == {"A", "B"}

\* the zoom factor in tenths: 1 is 10, the clamps 0.1 and 3 are 1 and 30
ZoomOne == 10
ZoomStep == 1
ZoomMin == 1
ZoomMax == 30

Pt(x, y) == [x |-> x, y |-> y]
Origin == Pt(0, 0)

\* the bounding client rect of the composed-image node (a fixed layout)
Rect == [left |-> 3, top |-> 5]

\* client positions of the pointer; their rect-relative positions are
\* (0,0) and (1,2), so that dx and dy differ and take both signs
ClientPoints == {Pt(3, 5), Pt(4, 7)}

\* x = e.clientX - rect.left, y = e.clientY - rect.top
Local(c) == Pt(c.x - Rect.left, c.y - Rect.top)

(* Event targets: the page outside the canvas area, the canvas area around *)
(* the composed image, the composed image itself, or element i on it.      *)
Page == [k |-> "page", i |-> NoElement]
Canvas == [k |-> "canvas", i |-> NoElement]
Image == [k |-> "image", i |-> NoElement]
El(i) == [k |-> "element", i |-> i]

Indexes(els) == 0 .. (Len(els) - 1)
Targets(els) == {Page, Canvas, Image} \cup {El(i) : i \in Indexes(els)}

\* the div carrying onMouseMove / onMouseDown / onMouseUp contains the target
InCanvasArea(t) == t.k # "page"
\* editedImageRef.current.contains(e.target)
InEditedImage(t) == t.k \in {"image", "element"}

\* elements[i] of the source (0-based)
At(els, i) == els[i + 1]
IsText(el) == el.type = "text"
IsEditing(el) == "isEditing" \in DOMAIN el /\ el.isEditing

----------------------------------------------------------------------------
(* The component state as one record, and its commit *)

St == [image |-> image, pending |-> pending, selectedTool |-> selectedTool,
       elements |-> elements, isDrawing |-> isDrawing, drawStart |-> drawStart,
       activeElement |-> activeElement, isDragging |-> isDragging,
       dragStart |-> dragStart, zoom |-> zoom]

Commit(s) ==
    /\ image' = s.image
    /\ pending' = s.pending
    /\ selectedTool' = s.selectedTool
    /\ elements' = s.elements
    /\ isDrawing' = s.isDrawing
    /\ drawStart' = s.drawStart
    /\ activeElement' = s.activeElement
    /\ isDragging' = s.isDragging
    /\ dragStart' = s.dragStart
    /\ zoom' = s.zoom

----------------------------------------------------------------------------
(* The handlers *)

\* items[i].type.indexOf("image") !== -1
IsImageType(type) == type \in {"image/png", "image/jpeg"}

\* reader.readAsDataURL(file): the read is in flight
handleImageUpload(s, file) ==
    IF file = Null THEN s ELSE [s EXCEPT !.pending = @ \cup {file}]

handlePaste(s, items) ==
    [s EXCEPT !.pending =
        @ \cup {items[n].file : n \in {m \in DOMAIN items : IsImageType(items[m].type)}}]

\* reader.onload = (e) => setImage(e.target.result)
readerOnload(s, file) ==
    [s EXCEPT !.image = file, !.pending = @ \ {file}]

handleClickOutside(s, t) ==
    IF ~InEditedImage(t) THEN [s EXCEPT !.activeElement = NoElement] ELSE s

\* variant: Escape also puts the tool away
handleKeyDown_cancelTool(s, key) ==
    IF key = "Escape"
    THEN [s EXCEPT !.activeElement = NoElement, !.selectedTool = Null]
    ELSE s

\* variant: Escape also closes the image
handleKeyDown_closeImage(s, key) ==
    IF key = "Escape"
    THEN [s EXCEPT !.activeElement = NoElement, !.image = Null]
    ELSE s

handleKeyDown(s, key) ==
    IF key = "Escape" THEN [s EXCEPT !.activeElement = NoElement] ELSE s

\* variant: no toggle, the chosen tool always becomes current
handleToolSelect_noToggle(s, tool) ==
    IF s.image = Null
    THEN s
    ELSE [s EXCEPT !.selectedTool = tool, !.activeElement = NoElement]

\* variant: a current tool must be put away before another can be taken
handleToolSelect_clearFirst(s, tool) ==
    IF s.image = Null
    THEN s
    ELSE [s EXCEPT !.selectedTool = IF s.selectedTool # Null THEN Null ELSE tool,
                   !.activeElement = NoElement]

\* variant: without the `if (!image) return` guard
handleToolSelect_unguarded(s, tool) ==
    [s EXCEPT !.selectedTool = IF tool = s.selectedTool THEN Null ELSE tool,
              !.activeElement = NoElement]

\* variant: without setActiveElement(null)
handleToolSelect_keepActive(s, tool) ==
    IF s.image = Null
    THEN s
    ELSE [s EXCEPT !.selectedTool = IF tool = s.selectedTool THEN Null ELSE tool]

handleToolSelect(s, tool) ==
    IF s.image = Null
    THEN s
    ELSE [s EXCEPT !.selectedTool = IF tool = s.selectedTool THEN Null ELSE tool,
                   !.activeElement = NoElement]

\* variant: the dragged element is also brought to the front (the list's end)
handleMouseMove_toFront(s, c) ==
    LET p == Local(c) IN
    IF s.isDragging /\ s.activeElement # NoElement
    THEN LET dx == p.x - s.dragStart.x
             dy == p.y - s.dragStart.y
             i == s.activeElement + 1
             rest == SelectSeq([n \in DOMAIN s.elements |-> <<n, s.elements[n]>>],
                               LAMBDA e : e[1] # i)
         IN [s EXCEPT
               !.elements = Append([n \in DOMAIN rest |-> rest[n][2]],
                                   [@[i] EXCEPT !.x = @ + dx, !.y = @ + dy]),
               !.dragStart = p]
    ELSE s

\* variant: the delta is taken from the press point, dragStart is not advanced
handleMouseMove_fromAnchor(s, c) ==
    LET p == Local(c) IN
    IF s.isDragging /\ s.activeElement # NoElement
    THEN LET dx == p.x - s.dragStart.x
             dy == p.y - s.dragStart.y
         IN [s EXCEPT
               !.elements = [n \in DOMAIN @ |->
                   IF n - 1 = s.activeElement
                   THEN [@[n] EXCEPT !.x = @ + dx, !.y = @ + dy]
                   ELSE @[n]]]
    ELSE s

handleMouseMove(s, c) ==
    LET p == Local(c) IN
    IF s.isDragging /\ s.activeElement # NoElement
    THEN LET dx == p.x - s.dragStart.x
             dy == p.y - s.dragStart.y
         IN [s EXCEPT
               !.elements = [n \in DOMAIN @ |->
                   IF n - 1 = s.activeElement
                   THEN [@[n] EXCEPT !.x = @ + dx, !.y = @ + dy]
                   ELSE @[n]],
               !.dragStart = p]
    ELSE s

NewText(p) ==
    [type |-> "text", x |-> p.x, y |-> p.y, content |-> Placeholder,
     width |-> TextWidth, height |-> TextHeight, isEditing |-> TRUE]

\* variant: the new text element is selected by the length after the append
handleMouseDown_lengthAfter(s, c) ==
    LET p == Local(c) IN
    IF s.selectedTool = "text"
    THEN [s EXCEPT !.elements = Append(@, NewText(p)),
                   !.activeElement = Len(s.elements) + 1,
                   !.selectedTool = Null]
    ELSE IF s.selectedTool = "arrow" \/ s.selectedTool = "square"
    THEN [s EXCEPT !.isDrawing = TRUE, !.drawStart = p]
    ELSE IF s.activeElement # NoElement
    THEN [s EXCEPT !.isDragging = TRUE, !.dragStart = p]
    ELSE s

handleMouseDown(s, c) ==
    LET p == Local(c) IN
    IF s.selectedTool = "text"
    THEN [s EXCEPT !.elements = Append(@, NewText(p)),
                   !.activeElement = Len(s.elements),
                   !.selectedTool = Null]
    ELSE IF s.selectedTool = "arrow" \/ s.selectedTool = "square"
    THEN [s EXCEPT !.isDrawing = TRUE, !.drawStart = p]
    ELSE IF s.activeElement # NoElement
    THEN [s EXCEPT !.isDragging = TRUE, !.dragStart = p]
    ELSE s

NewShape(type, start, end) ==
    [type |-> type, x |-> start.x, y |-> start.y,
     width |-> end.x - start.x, height |-> end.y - start.y]

Abs(n) == IF n < 0 THEN -n ELSE n

\* variant: the size of a drawn shape is normalized to be non-negative
handleMouseUp_normalized(s, c) ==
    LET end == Local(c)
        shape == NewShape(s.selectedTool, s.drawStart, end)
        s1 == IF s.isDrawing
              THEN [s EXCEPT !.elements = Append(@, [shape EXCEPT !.width = Abs(@),
                                                                  !.height = Abs(@)]),
                             !.isDrawing = FALSE,
                             !.selectedTool = Null]
              ELSE s
    IN [s1 EXCEPT !.isDragging = FALSE]

handleMouseUp(s, c) ==
    LET end == Local(c)
        s1 == IF s.isDrawing
              THEN [s EXCEPT !.elements = Append(@, NewShape(s.selectedTool, s.drawStart, end)),
                             !.isDrawing = FALSE,
                             !.selectedTool = Null]
              ELSE s
    IN [s1 EXCEPT !.isDragging = FALSE]

\* variant: a click on the active element deselects it
handleElementClick_toggle(s, index) ==
    [s EXCEPT !.activeElement = IF @ = index THEN NoElement ELSE index]

handleElementClick(s, index) ==
    [s EXCEPT !.activeElement = index]

\* el.field = value: the assignment adds the field when el has none
Put(el, field, value) ==
    [f \in DOMAIN el \cup {field} |-> IF f = field THEN value ELSE el[f]]

handleTextChange(s, index, newContent) ==
    [s EXCEPT !.elements[index + 1] = Put(@, "content", newContent)]

handleTextDoubleClick(s, index) ==
    [s EXCEPT !.elements[index + 1] = Put(@, "isEditing", TRUE),
              !.activeElement = index]

\* variant: leaving the editor also deselects the element
handleTextBlur_deselect(s, index) ==
    [s EXCEPT !.elements[index + 1] = Put(@, "isEditing", FALSE),
              !.activeElement = NoElement]

handleTextBlur(s, index) ==
    [s EXCEPT !.elements[index + 1] = Put(@, "isEditing", FALSE)]

Min(a, b) == IF a <= b THEN a ELSE b
Max(a, b) == IF a >= b THEN a ELSE b

\* variant: zoom-in without the upper clamp
handleZoomIn_unclamped(s) ==
    [s EXCEPT !.zoom = @ + ZoomStep]

\* setZoom((prev) => Math.min(prev + 0.1, 3))
handleZoomIn(s) ==
    [s EXCEPT !.zoom = Min(@ + ZoomStep, ZoomMax)]

\* variant: zoom-out without the lower clamp
handleZoomOut_unclamped(s) ==
    [s EXCEPT !.zoom = @ - ZoomStep]

\* setZoom((prev) => Math.max(prev - 0.1, 0.1))
handleZoomOut(s) ==
    [s EXCEPT !.zoom = Max(@ - ZoomStep, ZoomMin)]

\* the node held by editedImageRef as it is rendered: its inline style
\* carries transform: scale(zoom); its children are the image and the
\* annotation elements, the active one with a dashed border
EditedImageNode(s) ==
    [transform |-> s.zoom, img |-> s.image, children |-> s.elements,
     bordered |-> s.activeElement]

\* html-to-image renders the node it is given, with the node's own style
toPng(node) == [format |-> "png-data-url", of |-> node]
toBlob(node) == [format |-> "png-blob", of |-> node]

\* the data URL that is downloaded as edited-image.png
handleSave(s) == toPng(EditedImageNode(s))

\* the blob that is written to the clipboard
handleCopyToClipboard(s) == toBlob(EditedImageNode(s))

----------------------------------------------------------------------------
(* Pointer bookkeeping and bounds *)

InitSt == [image |-> Null, pending |-> {}, selectedTool |-> Null,
           elements |-> <<>>, isDrawing |-> FALSE, drawStart |-> Origin,
           activeElement |-> NoElement, isDragging |-> FALSE,
           dragStart |-> Origin, zoom |-> ZoomOne]

\* ptr.ph: "up" (button released), "down" (pressed; on element ptr.i when
\* ptr.i is an index), "click" (a click on element ptr.i is due)
Up == [ph |-> "up", i |-> NoElement]

\* the explored part of the state space
Bare(el) == "isEditing" \in DOMAIN el /\ "content" \notin DOMAIN el

InBounds(s) ==
    /\ Len(s.elements) <= MaxElems
    /\ Cardinality({n \in DOMAIN s.elements : Bare(s.elements[n])}) <= MaxBare
    /\ \A n \in DOMAIN s.elements :
          s.elements[n].x \in 0 .. MaxPos /\ s.elements[n].y \in 0 .. MaxPos

\* a click that is due is delivered before anything else happens
Ready == ptr.ph # "click"

\* an event other than a pointer event: the button stays as it is
Other(s) ==
    /\ Ready
    /\ Commit(s)
    /\ ptr' = ptr
    /\ reads' = reads + Cardinality(s.pending \ pending)

----------------------------------------------------------------------------
(* The DOM events *)

\* <input type="file"> onChange
FileChosen(file) ==
    /\ file \notin pending
    /\ Other(handleImageUpload(St, file))

PasteItems == {<<[type |-> "text/plain", file |-> Null]>>,
               <<[type |-> "text/plain", file |-> Null],
                 [type |-> "image/png", file |-> "A"]>>}

\* document "paste"
PasteEvent(items) ==
    /\ \A n \in DOMAIN items : items[n].file \notin pending
    /\ Other(handlePaste(St, items))

\* FileReader "load"
ReaderOnload(file) ==
    /\ file \in pending
    /\ Other(readerOnload(St, file))

\* a tool button's onClick (lines 240-263); a click needs no pointer: the
\* focused button is also activated from the keyboard
ToolSelect(tool) ==
    Other(handleToolSelect(St, tool))

\* document "keydown"
KeyDownEvent(key) ==
    Other(handleKeyDown(St, key))

\* <textarea onChange>, rendered while the text element is being edited
TextChangeEvent(i, content) ==
    /\ IsText(At(elements, i)) /\ IsEditing(At(elements, i))
    /\ Other(handleTextChange(St, i, content))

\* <textarea onBlur>: the browser moves the focus away from the editor
BlurEvent(i) ==
    /\ IsText(At(elements, i)) /\ IsEditing(At(elements, i))
    /\ Other(handleTextBlur(St, i))

\* "mousedown" bubbles from the target: the canvas area's React onMouseDown
\* (React's listeners are registered when the root is created), then the
\* document listener added by the effect of lines 82-105
onMouseDown(s, c, t) ==
    handleClickOutside(IF InCanvasArea(t) THEN handleMouseDown(s, c) ELSE s, t)

MouseDownEvent(c, t) ==
    LET s1 == onMouseDown(St, c, t)
    IN /\ Ready
       /\ ptr.ph # "down"
       /\ InBounds(s1)
       /\ Commit(s1)
       /\ ptr' = [ph |-> "down", i |-> t.i]
       /\ UNCHANGED reads

\* "mousemove" over the canvas area (elsewhere nothing listens)
MouseMoveEvent(c) ==
    LET s1 == handleMouseMove(St, c)
    IN /\ Ready
       /\ InBounds(s1)
       /\ Commit(s1)
       /\ ptr' = ptr
       /\ UNCHANGED reads

\* "mouseup" reaches the canvas area's onMouseUp when released over it
onMouseUp(s, c, t) ==
    IF InCanvasArea(t) THEN handleMouseUp(s, c) ELSE s

\* a click on element i follows when the button was pressed and released on it
MouseUpEvent(c, t) ==
    LET s1 == onMouseUp(St, c, t)
    IN /\ ptr.ph = "down"
       /\ InBounds(s1)
       /\ Commit(s1)
       /\ ptr' = IF t.k = "element" /\ t.i = ptr.i
                 THEN [ph |-> "click", i |-> t.i]
                 ELSE Up
       /\ UNCHANGED reads

\* "click" on element i: e.stopPropagation(); handleElementClick(index)
ClickEvent ==
    /\ ptr.ph = "click"
    /\ Commit(handleElementClick(St, ptr.i))
    /\ ptr' = Up
    /\ UNCHANGED reads

\* element onDoubleClick: element.type === "text" && handleTextDoubleClick(index)
onDoubleClick(s, index) ==
    IF IsText(At(s.elements, index)) THEN handleTextDoubleClick(s, index) ELSE s

\* the click that completes a double click: the browser dispatches "click"
\* and then "dblclick" on the element
DoubleClickEvent ==
    /\ ptr.ph = "click"
    /\ InBounds(onDoubleClick(handleElementClick(St, ptr.i), ptr.i))
    /\ Commit(onDoubleClick(handleElementClick(St, ptr.i), ptr.i))
    /\ ptr' = Up
    /\ UNCHANGED reads

----------------------------------------------------------------------------
(* The specification *)

\* the component after its first render
Mounted ==
    /\ image = InitSt.image
    /\ pending = InitSt.pending
    /\ selectedTool = InitSt.selectedTool
    /\ elements = InitSt.elements
    /\ isDrawing = InitSt.isDrawing
    /\ drawStart = InitSt.drawStart
    /\ activeElement = InitSt.activeElement
    /\ isDragging = InitSt.isDragging
    /\ dragStart = InitSt.dragStart
    /\ zoom = InitSt.zoom
    /\ ptr = Up
    /\ reads = 0

Init == Mounted

Next ==
    \/ \E file \in Files \cup {Null} : FileChosen(file) /\ reads' <= MaxReads
    \/ \E items \in PasteItems : PasteEvent(items) /\ reads' <= MaxReads
    \/ \E file \in Files : ReaderOnload(file)
    \/ \E tool \in Tools : ToolSelect(tool)
    \/ \E key \in Keys : KeyDownEvent(key)
    \/ \E i \in Indexes(elements), content \in Contents : TextChangeEvent(i, content)
    \/ \E i \in Indexes(elements) : BlurEvent(i)
    \/ \E c \in ClientPoints, t \in Targets(elements) : MouseDownEvent(c, t)
    \/ \E c \in ClientPoints : MouseMoveEvent(c)
    \/ \E c \in ClientPoints, t \in Targets(elements) : MouseUpEvent(c, t)
    \/ ClickEvent
    \/ DoubleClickEvent

Spec == Init /\ [][Next]_vars

----------------------------------------------------------------------------
(* Loading, zoom and export.  They are explored apart from the annotation  *)
(* gestures, with text placement on the composed image as the one gesture  *)
(* that fills the element list: no annotation handler reads the zoom, and  *)
(* no handler of this part reads the gesture state.                        *)

\* a paste that carries two images
ViewPasteItems ==
    PasteItems \cup {<<[type |-> "image/png", file |-> "A"],
                       [type |-> "image/jpeg", file |-> "B"]>>}

\* zoom-in button onClick
ZoomInEvent == Other(handleZoomIn(St))

\* zoom-out button onClick
ZoomOutEvent == Other(handleZoomOut(St))

\* Save Image onClick: a download, the component state stays as it is
SaveEvent == handleSave(St).format = "png-data-url" /\ Other(St)

\* Copy to Clipboard onClick: a clipboard write, the state stays as it is
CopyEvent == handleCopyToClipboard(St).format = "png-blob" /\ Other(St)

ViewNext ==
    \/ \E file \in ViewFiles \cup {Null} : FileChosen(file) /\ reads' <= MaxLoads
    \/ \E items \in ViewPasteItems : PasteEvent(items) /\ reads' <= MaxLoads
    \/ \E file \in ViewFiles : ReaderOnload(file)
    \/ ZoomInEvent
    \/ ZoomOutEvent
    \/ SaveEvent
    \/ CopyEvent
    \/ ToolSelect("text")
    \/ \E c \in ClientPoints : MouseDownEvent(c, Image)
    \/ \E c \in ClientPoints : MouseUpEvent(c, Image)

ViewSpec == Init /\ [][ViewNext]_vars

----------------------------------------------------------------------------
(* Properties.  A handler is a function of the committed state and of the  *)
(* event, so what an event does is stated about its result in every        *)
(* reachable state in which it can be dispatched.                          *)

\* pointer-move samples taken during one gesture are explored up to this many
MaxMoves == 2

MoveSeqs == UNION {[1 .. n -> ClientPoints] : n \in 0 .. MaxMoves}

RECURSIVE AfterMoves(_, _)
AfterMoves(s, moves) ==
    IF moves = <<>> THEN s
    ELSE AfterMoves(handleMouseMove(s, Head(moves)), Tail(moves))

\* a pointer-down can be dispatched: the button is up and no click is due
CanPress == ptr.ph = "up"

CanvasTargets(els) == {t \in Targets(els) : InCanvasArea(t)}
InsideTargets(els) == {t \in Targets(els) : InEditedImage(t)}
OutsideTargets(els) == {t \in Targets(els) : ~InEditedImage(t)}

EditingCount(els) == Cardinality({n \in DOMAIN els : IsEditing(els[n])})

----------------------------------------------------------------------------
\* C1: whenever a pointer-down is handled by the canvas while the text tool is
\* selected, the list becomes the previous list followed by one text element
\* at the pointer position (content "Text goes here", 200 x 40, isEditing),
\* and after the whole event the active index is the previous length and the
\* tool is none.
C1_TextPlacementSelectsNewElement ==
    [][\A c \in ClientPoints, t \in CanvasTargets(elements) :
          (MouseDownEvent(c, t) /\ selectedTool = "text") =>
              /\ elements' =
                    Append(elements,
                           [type |-> "text", x |-> c.x - Rect.left, y |-> c.y - Rect.top,
                            content |-> "Text goes here", width |-> 200, height |-> 40,
                            isEditing |-> TRUE])
              /\ activeElement' = Len(elements)
              /\ selectedTool' = Null]_vars

----------------------------------------------------------------------------
\* C2: with the rectangle ("square") or arrow tool selected, a pointer-down at
\* a on the canvas followed, after any pointer moves, by a pointer-up at r on
\* the canvas appends exactly one element of the selected type at a with the
\* signed size r - a; then the tool is none and no draw is in progress.
C2_ShapeFromAnchorToRelease ==
    (CanPress /\ selectedTool \in Shapes) =>
        \A a \in ClientPoints, t \in CanvasTargets(elements) :
          LET down == onMouseDown(St, a, t) IN
          \A moves \in MoveSeqs :
            LET moved == AfterMoves(down, moves) IN
            \A r \in ClientPoints, u \in CanvasTargets(elements) :
              LET s1 == onMouseUp(moved, r, u) IN
              /\ s1.elements =
                    Append(elements,
                           [type |-> selectedTool,
                            x |-> a.x - Rect.left, y |-> a.y - Rect.top,
                            width |-> r.x - a.x, height |-> r.y - a.y])
              /\ s1.selectedTool = Null
              /\ s1.isDrawing = FALSE

\* a shape tool is selected, an element exists already, and a gesture that
\* ends up and left of its anchor appends a shape of negative width and height
C2_Witness ==
    /\ CanPress /\ selectedTool = "square" /\ Len(elements) = 1
    /\ LET s1 == onMouseUp(onMouseDown(St, Pt(4, 7), Image), Pt(3, 5), Image) IN
       /\ Len(s1.elements) = 2
       /\ s1.elements[2].type = "square"
       /\ s1.elements[2].width = -1 /\ s1.elements[2].height = -2

----------------------------------------------------------------------------
\* C3: with no tool selected and element i active, a pointer-down at p0 on the
\* composed image followed by pointer-move samples p1..pn leaves every element
\* as it was except that element i's position has moved by pn - p0, whatever
\* the intermediate samples were.
MovedBy(els, i, dx, dy) ==
    [n \in DOMAIN els |->
        IF n = i + 1 THEN [els[n] EXCEPT !.x = @ + dx, !.y = @ + dy] ELSE els[n]]

C3_DragIsSumOfDeltas ==
    (CanPress /\ selectedTool = Null /\ activeElement # NoElement) =>
        \A p0 \in ClientPoints, t \in InsideTargets(elements) :
          LET down == onMouseDown(St, p0, t) IN
          \A moves \in MoveSeqs \ {<<>>} :
            LET s1 == AfterMoves(down, moves)
                pn == moves[Len(moves)]
            IN /\ s1.elements = MovedBy(elements, activeElement, pn.x - p0.x, pn.y - p0.y)
               /\ s1.activeElement = activeElement

\* an element is active beside another one, and a drag sampled twice moves it
C3_Witness ==
    /\ CanPress /\ selectedTool = Null /\ activeElement = 1 /\ Len(elements) = 2
    /\ LET s1 == AfterMoves(onMouseDown(St, Pt(3, 5), El(1)), <<Pt(4, 7), Pt(3, 5)>>)
           s2 == AfterMoves(onMouseDown(St, Pt(3, 5), El(1)), <<Pt(4, 7)>>)
       IN /\ s1.elements = elements
          /\ s2.elements[2].x = elements[2].x + 1
          /\ s2.elements[2].y = elements[2].y + 2
          /\ s2.elements[1] = elements[1]

----------------------------------------------------------------------------
\* C4 as stated: from every reachable state and for every tool T, selecting T
\* twice in a row leaves no tool selected.
C4_SelectTwiceClearsAlways ==
    \A tool \in Tools :
        handleToolSelect(handleToolSelect(St, tool), tool).selectedTool = Null

\* C4 (amended): from every reachable state in which T is not the current
\* tool, selecting T twice in a row leaves no tool selected.
C4_SelectTwiceClears ==
    \A tool \in Tools :
        selectedTool # tool =>
            handleToolSelect(handleToolSelect(St, tool), tool).selectedTool = Null

\* with the arrow tool current, the text tool is selected and then cleared
C4_Witness ==
    /\ selectedTool = "arrow" /\ Len(elements) = 1 /\ ptr.ph = "up"
    /\ handleToolSelect(St, "text").selectedTool = "text"
    /\ handleToolSelect(handleToolSelect(St, "text"), "text").selectedTool = Null

----------------------------------------------------------------------------
\* C5 as stated: selecting the current tool sets the tool to none, selecting
\* another tool makes that tool current.
C5_ToggleAlways ==
    \A tool \in Tools :
        handleToolSelect(St, tool).selectedTool =
            IF tool = selectedTool THEN Null ELSE tool

\* C5 (amended): with an image loaded, selecting the current tool sets the
\* tool to none and selecting another tool makes that tool current.
C5_Toggle ==
    image # Null =>
        \A tool \in Tools :
            handleToolSelect(St, tool).selectedTool =
                IF tool = selectedTool THEN Null ELSE tool

\* the square tool is current: selecting it clears it, selecting arrow switches
C5_Witness ==
    /\ image # Null /\ selectedTool = "square" /\ isDrawing
    /\ handleToolSelect(St, "square").selectedTool = Null
    /\ handleToolSelect(St, "arrow").selectedTool = "arrow"

----------------------------------------------------------------------------
\* C6: while no image is loaded, selecting a tool changes nothing: not the
\* tool, the active element, the element list or a gesture flag.
C6_ToolSelectWithoutImageIsNoOp ==
    image = Null =>
        \A tool \in Tools : handleToolSelect(St, tool) = St

\* no image is loaded yet (its read is still in flight) and a tool is selected
C6_Witness ==
    /\ image = Null /\ pending # {} /\ ptr.ph = "down"
    /\ handleToolSelect(St, "text").selectedTool = Null

----------------------------------------------------------------------------
\* C7: with an image loaded, a tool selection (activating, switching or
\* toggling off) leaves no element active and leaves the element list, with
\* every isEditing, as it was.
C7_ToolSelectClearsSelectionOnly ==
    image # Null =>
        \A tool \in Tools :
            LET s1 == handleToolSelect(St, tool) IN
            /\ s1.activeElement = NoElement
            /\ s1.elements = elements

\* an element being edited is active when a tool is selected
C7_Witness ==
    /\ image # Null /\ activeElement = 0 /\ IsEditing(At(elements, 0))
    /\ ptr.ph = "up"
    /\ handleToolSelect(St, "arrow").activeElement = NoElement
    /\ IsEditing(At(handleToolSelect(St, "arrow").elements, 0))

----------------------------------------------------------------------------
\* C8: Escape sets the active element to none and changes nothing else (the
\* tool, the list, the gesture flags); with no element active it changes
\* nothing at all.
C8_EscapeClearsSelectionOnly ==
    /\ handleKeyDown(St, "Escape") = [St EXCEPT !.activeElement = NoElement]
    /\ activeElement = NoElement => handleKeyDown(St, "Escape") = St

\* Escape is pressed in the middle of a drag of an element that is being edited
C8_Witness ==
    /\ activeElement = 1 /\ isDragging /\ ptr.ph = "down"
    /\ IsEditing(At(elements, 1)) /\ At(elements, 1).content = "hi"
    /\ handleKeyDown(St, "Escape").activeElement = NoElement
    /\ handleKeyDown(St, "Escape").elements = elements

----------------------------------------------------------------------------
\* C9: a pointer-down whose target lies outside the composed image (the page,
\* or the canvas area around the composed image) sets the active element to
\* none and changes neither the tool nor the element list; when no element was
\* active it changes no state at all.
C9_OutsidePressClearsSelectionOnly ==
    [][\A c \in ClientPoints, t \in OutsideTargets(elements) :
          MouseDownEvent(c, t) =>
              /\ activeElement' = NoElement
              /\ UNCHANGED <<selectedTool, elements>>
              /\ activeElement = NoElement =>
                     UNCHANGED <<image, pending, selectedTool, elements, isDrawing,
                                 drawStart, activeElement, isDragging, dragStart>>]_vars

----------------------------------------------------------------------------
\* C10: at most one element of the list has isEditing = true.
C10_AtMostOneEditing == EditingCount(elements) <= 1

----------------------------------------------------------------------------
\* C11: when a read completes while an image is already loaded (the image is
\* replaced), the element list is empty afterwards.
C11_ReplacementDiscardsElements ==
    [][\A file \in ViewFiles :
          (ReaderOnload(file) /\ image # Null) => elements' = <<>>]_vars

----------------------------------------------------------------------------
\* C12: the element list is append-only: in every step its length does not
\* decrease and every element already present keeps its index, its type and
\* its size; only x, y, content and isEditing of an existing element change.
SameButPlaceAndText(old, new) ==
    /\ DOMAIN new \ {"content", "isEditing"} = DOMAIN old \ {"content", "isEditing"}
    /\ \A f \in DOMAIN old \ {"x", "y", "content", "isEditing"} : new[f] = old[f]

C12_ElementsAppendOnly ==
    [][/\ Len(elements') >= Len(elements)
       /\ \A n \in DOMAIN elements : SameButPlaceAndText(elements[n], elements'[n])]_vars

\* a text element that was moved and retyped holds index 0 in front of a shape
C12_Witness ==
    /\ Len(elements) = 2
    /\ IsText(elements[1]) /\ "content" \in DOMAIN elements[1]
    /\ elements[1].content = "hi" /\ ~IsEditing(elements[1])
    /\ elements[1].x = 1 /\ elements[1].width = TextWidth
    /\ elements[2].type = "arrow" /\ elements[2].width = -1

----------------------------------------------------------------------------
RECURSIVE ZoomInTimes(_, _)
ZoomInTimes(s, n) == IF n = 0 THEN s ELSE ZoomInTimes(handleZoomIn(s), n - 1)

RECURSIVE ZoomOutTimes(_, _)
ZoomOutTimes(s, n) == IF n = 0 THEN s ELSE ZoomOutTimes(handleZoomOut(s), n - 1)

\* C13: the zoom factor (in tenths) stays within 1..30; zoom-in yields
\* min(z + 1, 30) and zoom-out max(z - 1, 1); from 10, six zoom-ins give 16
\* and twenty give 30.
C13_ZoomStaysClamped ==
    /\ zoom \in 1 .. 30
    /\ handleZoomIn(St).zoom = (IF zoom + 1 < 30 THEN zoom + 1 ELSE 30)
    /\ handleZoomOut(St).zoom = (IF zoom - 1 > 1 THEN zoom - 1 ELSE 1)
    /\ handleZoomIn(St).zoom \in 1 .. 30 /\ handleZoomOut(St).zoom \in 1 .. 30
    /\ zoom = 10 => /\ ZoomInTimes(St, 6).zoom = 16
                    /\ ZoomInTimes(St, 20).zoom = 30
                    /\ ZoomInTimes(St, 21).zoom = 30

\* the zoom sits on the upper clamp and a further zoom-in leaves it there
C13_Witness ==
    /\ zoom = 30 /\ image = "B"
    /\ handleZoomIn(St).zoom = 30 /\ handleZoomOut(St).zoom = 29

----------------------------------------------------------------------------
\* C14 as stated: from zoom 30 (3.0), 25 zoom-outs leave the zoom at 1 (0.1).
C14_TwentyFiveZoomOutsReachMinimum ==
    zoom = 30 => ZoomOutTimes(St, 25).zoom = 1

\* C14 (amended): from zoom 30 (3.0), 25 zoom-outs leave the zoom at 5 (0.5);
\* 29 zoom-outs bring it to 1 (0.1), where every further zoom-out leaves it.
C14_ZoomOutReachesMinimumAfter29 ==
    zoom = 30 => /\ ZoomOutTimes(St, 25).zoom = 5
                 /\ ZoomOutTimes(St, 28).zoom = 2
                 /\ \A n \in 29 .. 35 : ZoomOutTimes(St, n).zoom = 1

\* the zoom is 3.0 with annotations on the image
C14_Witness ==
    /\ zoom = 30 /\ Len(elements) = 1
    /\ ZoomOutTimes(St, 29).zoom = 1 /\ ZoomOutTimes(St, 30).zoom = 1

----------------------------------------------------------------------------
\* C15: what Save and Copy produce does not depend on the zoom: a state that
\* differs from the current one in the zoom only exports the same raster.
C15_ExportIgnoresZoom ==
    \A z \in ZoomMin .. ZoomMax :
        /\ handleSave([St EXCEPT !.zoom = z]) = handleSave(St)
        /\ handleCopyToClipboard([St EXCEPT !.zoom = z]) = handleCopyToClipboard(St)

----------------------------------------------------------------------------
\* the orders in which the reads of a set of files can complete
Orders(files) ==
    {o \in [1 .. Cardinality(files) -> files] : \A f \in files : \E n \in DOMAIN o : o[n] = f}

RECURSIVE AfterLoads(_, _)
AfterLoads(s, order) ==
    IF order = <<>> THEN s ELSE AfterLoads(readerOnload(s, Head(order)), Tail(order))

ImageItems(items) == {n \in DOMAIN items : IsImageType(items[n].type)}
FirstImage(items) == items[CHOOSE n \in ImageItems(items) : \A m \in ImageItems(items) : n <= m].file

\* C16: after a paste that carries several image items, and whatever order
\* its reads complete in, the loaded image is the first image item.
C16_PasteLoadsFirstImage ==
    pending = {} =>
        \A items \in ViewPasteItems :
            Cardinality(ImageItems(items)) > 1 =>
                LET s1 == handlePaste(St, items) IN
                \A order \in Orders(s1.pending) :
                    AfterLoads(s1, order).image = FirstImage(items)

----------------------------------------------------------------------------
\* C17: a double click on text element i sets its isEditing and makes i the
\* active element, whatever the tool; a blur of element i's editor clears its
\* isEditing and leaves the active element, the tool, the rest of element i
\* and every other element as they were.
C17_DoubleClickEditsBlurKeepsSelection ==
    \A i \in Indexes(elements) :
        IsText(At(elements, i)) =>
            LET dbl == onDoubleClick(handleElementClick(St, i), i)
                blur == handleTextBlur(St, i)
            IN /\ IsEditing(At(dbl.elements, i))
               /\ dbl.activeElement = i
               /\ ~IsEditing(At(blur.elements, i))
               /\ blur = [St EXCEPT !.elements[i + 1] = At(blur.elements, i)]
               /\ \A f \in DOMAIN At(elements, i) \ {"isEditing"} :
                     At(blur.elements, i)[f] = At(elements, i)[f]

\* the arrow tool is selected; one text element is being edited, another is not
C17_Witness ==
    /\ selectedTool = "arrow" /\ Len(elements) = 2
    /\ IsText(elements[1]) /\ IsEditing(elements[1])
    /\ IsText(elements[2]) /\ "isEditing" \in DOMAIN elements[2] /\ ~elements[2].isEditing
    /\ onDoubleClick(handleElementClick(St, 1), 1).activeElement = 1
    /\ IsEditing(At(onDoubleClick(handleElementClick(St, 1), 1).elements, 1))
    /\ ~IsEditing(At(handleTextBlur(St, 0).elements, 0))

----------------------------------------------------------------------------
\* C18: isDrawing and isDragging are never both true.
C18_DrawAndDragExclusive == ~(isDrawing /\ isDragging)

----------------------------------------------------------------------------
\* C19: with no tool selected and element i active, a pointer-down anywhere
\* but on element i starts no drag: no pointer-move after it changes the
\* position of element i.
C19_DragStartsOnActiveElementOnly ==
    [][\A c \in ClientPoints, t \in Targets(elements) \ {El(activeElement)} :
          (MouseDownEvent(c, t) /\ selectedTool = Null /\ activeElement # NoElement) =>
              \A m \in ClientPoints :
                  At(handleMouseMove(St', m).elements, activeElement)
                      = At(elements, activeElement)]_vars

----------------------------------------------------------------------------
\* C20: once the pointer button has been released, isDrawing and isDragging
\* are both false.
C20_ReleaseResetsGestureFlags ==
    [][\A c \in ClientPoints, t \in Targets(elements) :
          MouseUpEvent(c, t) => (~isDrawing' /\ ~isDragging')]_vars

----------------------------------------------------------------------------
\* C21: a click on element i (pointer-down on it, pointer-moves, pointer-up
\* on it, click), whatever the tool, ends with element i active.
C21_ClickSelectsElement ==
    CanPress =>
        \A i \in Indexes(elements), c \in ClientPoints :
            LET down == onMouseDown(St, c, El(i)) IN
            \A moves \in MoveSeqs, r \in ClientPoints :
                LET up == onMouseUp(AfterMoves(down, moves), r, El(i))
                    s1 == handleElementClick(up, i)
                IN /\ s1.activeElement = i
                   /\ i \in Indexes(s1.elements)

\* the text tool is selected when element 0, which is not active, is clicked
C21_Witness ==
    /\ CanPress /\ selectedTool = "text" /\ Len(elements) = 1
    /\ activeElement = NoElement
    /\ LET s1 == handleElementClick(
                     onMouseUp(onMouseDown(St, Pt(3, 5), El(0)), Pt(3, 5), El(0)), 0)
       IN s1.activeElement = 0 /\ Len(s1.elements) = 2 /\ s1.selectedTool = Null

----------------------------------------------------------------------------
\* C22: while isDrawing is true a pointer-move changes neither the element
\* list, nor the active element, nor the tool, nor drawStart.
C22_MoveWhileDrawingChangesNothing ==
    [][\A c \in ClientPoints :
          (MouseMoveEvent(c) /\ isDrawing) =>
              UNCHANGED <<elements, activeElement, selectedTool, drawStart>>]_vars

----------------------------------------------------------------------------
\* C23: the type of every element of the list is one of text, arrow, square.
C23_ElementTypesAreTools ==
    \A n \in DOMAIN elements : elements[n].type \in {"text", "arrow", "square"}

----------------------------------------------------------------------------
\* C24: the active element is none or an index of the list.
C24_ActiveElementIsValid ==
    activeElement = NoElement \/ (0 <= activeElement /\ activeElement < Len(elements))

\* the last element of a list of two is active
C24_Witness ==
    /\ Len(elements) = 2 /\ activeElement = 1
    /\ selectedTool = Null /\ isDragging

----------------------------------------------------------------------------
\* C25: while no image is loaded the tool is none, the list is empty, no
\* element is active and no draw is in progress; a loaded image is never
\* unloaded, by no step and by no further load.
C25_NothingWithoutImage ==
    /\ [](/\ image = Null =>
               /\ selectedTool = Null /\ elements = <<>>
               /\ activeElement = NoElement /\ ~isDrawing
          /\ image # Null =>
               \A file \in ViewFiles :
                   readerOnload(handleImageUpload(St, file), file).image # Null)
    /\ [][image # Null => image' # Null]_vars

\* a read is in flight, no image yet, and a press on the canvas does nothing
C25_Witness ==
    /\ image = Null /\ pending = {"A"} /\ ptr.ph = "up"
    /\ onMouseDown(St, Pt(4, 7), Image) = St
    /\ handleToolSelect(St, "square") = St

====
